---- MODULE Spec2Model ----
(***************************************************************************)
(* Evie: the wake-word listener (VoiceService) and the message dispatch    *)
(* adapters (AndroidSMSService, IOSSMSService) as state machines.          *)
(*                                                                         *)
(* JavaScript runs one handler at a time up to its next suspension point.  *)
(* A suspension point is an await on the operating system, the wake-word   *)
(* engine, the network or a timer.  An await on a promise that is already  *)
(* settled resumes before any callback or timer is delivered, so it is     *)
(* part of the same step.  Each action below is one such step.             *)
(***************************************************************************)
EXTENDS Integers, Sequences, FiniteSets, TLC

(* ------------------------------ bounds -------------------------------- *)
MaxPending == 1            \* async calls suspended at once, the unmount cleanup aside
MaxTimers == 1             \* detection timers pending at once
MaxHandles == 1            \* engine handles PorcupineManager.create hands out
MaxOverlap == 2            \* async calls suspended at once where calls overlap
MaxOverlapHandles == 2     \* engine handles handed out where calls overlap

MaxSends == 1              \* sendSMSWithRetry calls in flight at once
MaxOverlapSends == 2       \* sendSMSWithRetry calls in flight where sends overlap
QuotaWindow == 1           \* how far below the quota the month's count starts
MaxPhoneParts == 6         \* parts an input of formatPhoneNumber is typed from
MaxAttempts == 5           \* send attempts one sendSMSWithRetry call is followed for
MaxGatewayCalls == 1       \* gateway calls waiting for the OS at once
MaxRequests == 2           \* requests counted per permission type
MaxDetections == 2         \* keyword_detected events the service emits

(* -------------------------- program constants ------------------------- *)
maxRetries == 3            \* VoiceService.maxRetries
MinAccessKeyLength == 10
smsMaxRetries == 3         \* config.maxRetries of both SMS services
freeLimit == 1000          \* usageStats.freeLimit
MinPhoneDigits == 10
MaxPhoneDigits == 15

(***************************************************************************)
(* VoiceService                                                            *)
(***************************************************************************)
VARIABLES
  platform,           \* Platform.OS
  accessKeyLength,    \* config.accessKey.length
  sensitivityInRange, \* config.sensitivity is within [0.0, 1.0]
  pendingLimit,       \* async calls the behaviour is followed with at once
  handleLimit,        \* engine handles the behaviour is followed with
  currentState,       \* VoiceService.currentState
  porcupineManager,   \* VoiceService.porcupineManager: 0 is null, else a handle
  isInitialized,      \* VoiceService.isInitialized
  permissionGranted,  \* VoiceService.permissionGranted
  retryCount,         \* VoiceService.retryCount
  listeners,          \* the EventEmitter has listeners registered
  handles,            \* the engine's handles: none, stopped, running, deleted
  tasks,              \* suspended async calls: a bag of [stack, at, h]
  detectionTimers,    \* pending 1000 ms timers of handleKeywordDetection
  retryTimers,        \* pending 3000 ms timers of attemptRecovery
  mounted,            \* the hook still holds its reference to the service
  last,               \* the step just taken: what ran, returned, called, emitted
  failedRecoveries,   \* history: recovery attempts failed since listening last
                      \* began, counted up to maxRetries
  startedNoStop       \* history: a start() returned true and no stop() was called since

(***************************************************************************)
(* AndroidSMSService / IOSSMSService: the one Platform.OS selects          *)
(***************************************************************************)
VARIABLES
  osSmsPermission,     \* the operating system's SEND_SMS grant
  permissionStatus,    \* AndroidSMSService.permissionStatus
  smsRetryCount,       \* the service's retryCount
  messagesThisMonth,   \* IOSSMSService.usageStats.messagesThisMonth
  newMonth,            \* a calendar month began since usageStats.lastResetDate
  firebaseProjectId,   \* config.firebase.projectId is set
  messageConfig,       \* the configured message: its recipient and body
  sendLimit,           \* sendSMSWithRetry calls the application has in flight at once
  sends                \* the sendSMSWithRetry calls, each with its message

smsVars ==
  <<osSmsPermission, permissionStatus, smsRetryCount, messagesThisMonth,
    newMonth, firebaseProjectId, messageConfig, sendLimit, sends>>

(***************************************************************************)
(* Phone number normalization on its own: formatPhoneNumber applied to an  *)
(* input typed part by part                                                *)
(***************************************************************************)
VARIABLES
  phoneParts,          \* the input string, as the parts typed so far
  formatted            \* what formatPhoneNumber returned for it, or NotFormatted

formatVars == <<phoneParts, formatted>>

(***************************************************************************)
(* The permission gateway: the state of the usePermissions hook            *)
(***************************************************************************)
VARIABLES
  permissions,               \* per type: the recorded status and requestCount
  criticalPermissionsDenied, \* permissions.criticalPermissionsDenied
  isMountedRef,              \* isMountedRef.current
  osPermissions,             \* what the OS holds per type
  gatewayCalls,              \* the calls waiting for PermissionsAndroid
  lastGateway                \* the last gateway step: what it asked or returned

gatewayVars == <<permissions, criticalPermissionsDenied, isMountedRef,
                 osPermissions, gatewayCalls, lastGateway>>

(***************************************************************************)
(* The dispatch orchestrator: the useVoiceDetection hook and the keyword   *)
(* effect of HomeScreen                                                    *)
(***************************************************************************)
VARIABLES
  voiceDetection,            \* the hook's state
  isComponentMountedRef,     \* isComponentMountedRef.current
  voiceServiceRef,           \* voiceServiceRef.current is set
  hookCall,                  \* the hook call waiting for the service, or "none"
  isConfigured,              \* HomeScreen: isConfigured, messageConfig is set
  detections,                \* keyword_detected events the service emitted
  appState,                  \* AppState.currentState
  appStateRef,               \* appStateRef.current
  appStateHandler,           \* nextAppState of a handleAppStateChange that awaits
  pausedListening            \* handleAppStateChange stopped listening, not yet active

appVars == <<appState, appStateRef, appStateHandler, pausedListening>>

orchestratorVars == <<voiceDetection, isComponentMountedRef, voiceServiceRef, hookCall,
                      isConfigured, detections, appVars>>

voiceVars == <<platform, accessKeyLength, sensitivityInRange, pendingLimit, handleLimit,
               currentState, porcupineManager,
               isInitialized, permissionGranted, retryCount, listeners, handles,
               tasks, detectionTimers, retryTimers, mounted, last,
               failedRecoveries, startedNoStop>>

VoiceServiceState ==
  {"idle", "initializing", "listening", "processing", "error", "permission_denied"}

HandleIds == 1..handleLimit

(* The object and its surroundings as one value, so that the synchronous   *)
(* part of a handler is a function from worlds to worlds.                  *)
World ==
  [currentState |-> currentState, porcupineManager |-> porcupineManager,
   isInitialized |-> isInitialized, permissionGranted |-> permissionGranted,
   retryCount |-> retryCount, listeners |-> listeners, handles |-> handles,
   detectionTimers |-> detectionTimers, retryTimers |-> retryTimers,
   failedRecoveries |-> failedRecoveries, startedNoStop |-> startedNoStop,
   emits |-> <<>>, calls |-> {}]

(* ----------------------------- outcomes ------------------------------- *)
(* What a call or a continuation ends with: a returned value, a thrown     *)
(* exception, or a suspension at an await (stk: the frames from this one   *)
(* down to the one that awaits, at: the await, h: the handle awaited on).  *)
Ret(w, v) == [w |-> w, kind |-> "ret", val |-> v, stk |-> <<>>, at |-> "", h |-> 0]
Throw(w) == [w |-> w, kind |-> "throw", val |-> FALSE, stk |-> <<>>, at |-> "", h |-> 0]
Await(w, f, a, hd) ==
  [w |-> w, kind |-> "await", val |-> FALSE, stk |-> <<f>>, at |-> a, h |-> hd]
Under(f, o) == IF o.kind = "await" THEN [o EXCEPT !.stk = <<f>> \o @] ELSE o

Event(type, code, rec) == [type |-> type, code |-> code, isRecoverable |-> rec]

setState(w, newState) == [w EXCEPT !.currentState = newState]

(* EventEmitter.emit: an "error" event with no listener registered throws. *)
emit(w, ev) ==
  IF ev.type = "error" /\ ~w.listeners
    THEN Throw(w)
    ELSE Ret([w EXCEPT !.emits = Append(@, ev)], TRUE)

Call(w, c) == [w EXCEPT !.calls = @ \cup {c}]

(* ------------------- requestMicrophonePermission ---------------------- *)
requestMicrophonePermission(w) ==
  IF platform = "android"
    THEN Await(Call(w, "PermissionsAndroid.request"),
               "requestMicrophonePermission", "perm", 0)
    ELSE Ret([w EXCEPT !.permissionGranted = TRUE], TRUE)

requestMicrophonePermission_resume(w, res) ==
  IF res = "throw"
    THEN LET e == emit(w, Event("error", "PERMISSION_ERROR", TRUE))
         IN  IF e.kind = "throw" THEN e ELSE Ret(e.w, FALSE)
    ELSE LET w1 == [w EXCEPT !.permissionGranted = (res = "granted")]
         IN  IF ~w1.permissionGranted
               THEN LET e == emit(w1, Event("permission_denied", "PERMISSION_DENIED", FALSE))
                    IN  Ret(setState(e.w, "permission_denied"), FALSE)
               ELSE Ret(w1, TRUE)

(* ----------------------------- initialize ----------------------------- *)
initialize_catch(w) ==
  LET e == emit(w, Event("error", "INIT_ERROR", TRUE))
  IN  IF e.kind = "throw" THEN e ELSE Ret(setState(e.w, "error"), FALSE)

initialize_afterPermission(o) ==
  IF o.kind = "throw" THEN initialize_catch(o.w)
  ELSE IF ~o.val THEN Ret(o.w, FALSE)
  ELSE IF accessKeyLength < MinAccessKeyLength THEN initialize_catch(o.w)
  ELSE Await(Call(o.w, "PorcupineManager.create"), "initialize", "create", 0)

initialize(w) ==
  LET w1 == setState(w, "initializing")
  IN  IF ~w1.permissionGranted
        THEN LET o == requestMicrophonePermission(w1)
             IN  IF o.kind = "await" THEN Under("initialize", o)
                 ELSE initialize_afterPermission(o)
        ELSE initialize_afterPermission(Ret(w1, TRUE))

FreeHandle(w) == CHOOSE h \in HandleIds :
                   /\ w.handles[h] = "none"
                   /\ \A g \in HandleIds : g < h => w.handles[g] # "none"

initialize_resume(w, ok) ==
  IF ok
    THEN LET h == FreeHandle(w)
             w1 == [w EXCEPT !.handles[h] = "stopped", !.porcupineManager = h,
                             !.isInitialized = TRUE]
         IN  Ret(setState(w1, "idle"), TRUE)
    ELSE initialize_catch(w)

(* ------------------------------- start -------------------------------- *)
start_catch(w) ==
  LET e == emit(w, Event("error", "START_ERROR", TRUE))
  IN  IF e.kind = "throw" THEN e ELSE Ret(setState(e.w, "error"), FALSE)

start_afterInitialize(o) ==
  IF o.kind = "throw" THEN start_catch(o.w)
  ELSE IF ~o.val THEN Ret(o.w, FALSE)
  ELSE IF o.w.currentState = "listening"
         THEN Ret([o.w EXCEPT !.startedNoStop = TRUE, !.failedRecoveries = 0], TRUE)
  ELSE IF o.w.porcupineManager = 0 THEN start_catch(o.w)
  ELSE Await(Call(o.w, "porcupineManager.start"), "start", "pstart",
             o.w.porcupineManager)

start(w) ==
  IF ~w.isInitialized
    THEN LET o == initialize(w)
         IN  IF o.kind = "await" THEN Under("start", o)
             ELSE start_afterInitialize(o)
    ELSE start_afterInitialize(Ret(w, TRUE))

start_resume(w, h, ok) ==
  IF ok
    THEN LET w1 == setState([w EXCEPT !.handles[h] = "running",
                                      !.startedNoStop = TRUE,
                                      !.failedRecoveries = 0], "listening")
         IN  Ret(emit(w1, Event("listening_started", "", TRUE)).w, TRUE)
    ELSE start_catch(w)

(* -------------------------------- stop -------------------------------- *)
stop_noIdleCheck(w) ==
  LET w0 == [w EXCEPT !.startedNoStop = FALSE]
  IN  IF w0.porcupineManager = 0
        THEN Ret(setState(w0, "idle"), TRUE)
        ELSE Await(Call(w0, "porcupineManager.stop"), "stop", "pstop",
                   w0.porcupineManager)

stop(w) ==
  LET w0 == [w EXCEPT !.startedNoStop = FALSE]
  IN  IF w0.currentState = "idle" \/ w0.porcupineManager = 0
        THEN Ret(setState(w0, "idle"), TRUE)
        ELSE Await(Call(w0, "porcupineManager.stop"), "stop", "pstop",
                   w0.porcupineManager)

stop_resume(w, h, ok) ==
  IF ok
    THEN LET w1 == setState([w EXCEPT !.handles[h] = "stopped"], "idle")
         IN  Ret(emit(w1, Event("listening_stopped", "", TRUE)).w, TRUE)
    ELSE LET e == emit(w, Event("error", "STOP_ERROR", TRUE))
         IN  IF e.kind = "throw" THEN e ELSE Ret(e.w, FALSE)

(* --------------------------- attemptRecovery -------------------------- *)
(* val of the outcome: TRUE when the attempt ended with start() returning  *)
(* true; the code itself returns nothing.                                  *)
CountFailure(n) == IF n < maxRetries THEN n + 1 ELSE n

attemptRecovery_catch(w) ==
  Ret([w EXCEPT !.retryTimers = @ + 1, !.failedRecoveries = CountFailure(@)], FALSE)

attemptRecovery_afterStart(o) ==
  IF o.kind = "throw" THEN attemptRecovery_catch(o.w)
  ELSE Ret([o.w EXCEPT !.retryCount = 0,
                       !.failedRecoveries = IF o.val THEN 0 ELSE CountFailure(@)], o.val)

attemptRecovery_resume(w) ==
  LET o == start(w)
  IN  IF o.kind = "await" THEN Under("attemptRecovery", o)
      ELSE attemptRecovery_afterStart(o)

attemptRecovery_afterStop(o) ==
  IF o.kind = "throw" THEN attemptRecovery_catch(o.w)
  ELSE Await(o.w, "attemptRecovery", "wait", 0)

attemptRecovery(w) ==
  IF w.retryCount >= maxRetries
    THEN LET e == emit(w, Event("error", "RECOVERY_FAILED", FALSE))
         IN  IF e.kind = "throw" THEN e ELSE Ret(e.w, FALSE)
    ELSE LET w1 == [w EXCEPT !.retryCount = @ + 1]
             o == stop(w1)
         IN  IF o.kind = "await" THEN Under("attemptRecovery", o)
             ELSE attemptRecovery_afterStop(o)

(* ------------------------- engine callbacks --------------------------- *)
handleKeywordDetection(w) ==
  LET w1 == setState(w, "processing")
      e == emit(w1, Event("keyword_detected", "", TRUE))
  IN  Ret([e.w EXCEPT !.detectionTimers = @ + 1], TRUE)

detectionTimeout_unguarded(w) == setState(w, "listening")

detectionTimeout(w) ==
  IF w.currentState = "processing" THEN setState(w, "listening") ELSE w

handlePorcupineError(w) ==
  LET e == emit(w, Event("error", "PORCUPINE_ERROR", TRUE))
  IN  IF e.kind = "throw" THEN e
      ELSE attemptRecovery(setState(e.w, "error"))

(* ------------------------------ cleanup ------------------------------- *)
cleanup_finish(w) ==
  Ret(setState([w EXCEPT !.listeners = FALSE, !.isInitialized = FALSE], "idle"), TRUE)

cleanup_afterStop(o) ==
  IF o.kind = "throw" \/ o.w.porcupineManager = 0 THEN Ret(o.w, FALSE)
  ELSE Await(Call(o.w, "porcupineManager.delete"), "cleanup", "pdelete",
             o.w.porcupineManager)

cleanup(w) ==
  IF w.porcupineManager # 0
    THEN LET o == stop(w)
         IN  IF o.kind = "await" THEN Under("cleanup", o)
             ELSE cleanup_afterStop(o)
    ELSE cleanup_finish(w)

cleanup_resume(w, h, ok) ==
  IF ok
    THEN cleanup_finish([w EXCEPT !.handles[h] = "deleted", !.porcupineManager = 0])
    ELSE Ret(w, FALSE)

(* ----------------------- resuming a suspended call -------------------- *)
Front(s) == SubSeq(s, 1, Len(s) - 1)

(* The frame f, suspended at its own await, resumes with the result res.   *)
ResumeInner(f, w, h, res) ==
  CASE f = "requestMicrophonePermission" -> requestMicrophonePermission_resume(w, res)
    [] f = "initialize" -> initialize_resume(w, res = "ok")
    [] f = "start" -> start_resume(w, h, res = "ok")
    [] f = "stop" -> stop_resume(w, h, res = "ok")
    [] f = "cleanup" -> cleanup_resume(w, h, res = "ok")
    [] f = "attemptRecovery" -> attemptRecovery_resume(w)

(* The frame p resumes after the call it awaited, callee, ended with o.     *)
Continue(p, callee, o) ==
  CASE p = "initialize" /\ callee = "requestMicrophonePermission" ->
         initialize_afterPermission(o)
    [] p = "start" /\ callee = "initialize" -> start_afterInitialize(o)
    [] p = "attemptRecovery" /\ callee = "stop" -> attemptRecovery_afterStop(o)
    [] p = "attemptRecovery" /\ callee = "start" -> attemptRecovery_afterStart(o)
    [] p = "cleanup" /\ callee = "stop" -> cleanup_afterStop(o)

RECURSIVE Unwind(_, _, _)
Unwind(rest, callee, o) ==
  IF o.kind = "await" THEN [o EXCEPT !.stk = rest \o @]
  ELSE IF rest = <<>> THEN o
  ELSE LET p == rest[Len(rest)]
       IN  Unwind(Front(rest), p, Continue(p, callee, o))

Resume(t, w, res) ==
  LET f == t.stack[Len(t.stack)]
  IN  Unwind(Front(t.stack), f, ResumeInner(f, w, t.h, res))

(* ------------------------------- the bag ------------------------------ *)
NoTasks == [t \in {} |-> 0]
BagAdd(b, t) ==
  IF t \in DOMAIN b THEN [b EXCEPT ![t] = @ + 1]
  ELSE [x \in DOMAIN b \cup {t} |-> IF x = t THEN 1 ELSE b[x]]
BagRemove(b, t) ==
  IF b[t] > 1 THEN [b EXCEPT ![t] = @ - 1]
  ELSE [x \in DOMAIN b \ {t} |-> b[x]]

(* ------------------------------- steps -------------------------------- *)
RetOf(o) ==
  CASE o.kind = "await" -> "pending"
    [] o.kind = "throw" -> "throw"
    [] o.kind = "ret" -> IF o.val THEN "true" ELSE "false"

(* The step that ran `op` (from `at`: "call", a callback, or the await it   *)
(* resumed from) ended with the outcome o; pending is the bag of the other *)
(* suspended calls.                                                        *)
Finish(op, at, o, pending) ==
  \E r \in {o} :
    /\ currentState' = r.w.currentState
    /\ porcupineManager' = r.w.porcupineManager
    /\ isInitialized' = r.w.isInitialized
    /\ permissionGranted' = r.w.permissionGranted
    /\ retryCount' = r.w.retryCount
    /\ listeners' = r.w.listeners
    /\ handles' = r.w.handles
    /\ detectionTimers' = r.w.detectionTimers
    /\ retryTimers' = r.w.retryTimers
    /\ failedRecoveries' = r.w.failedRecoveries
    /\ startedNoStop' = r.w.startedNoStop
    /\ tasks' = IF r.kind = "await"
                  THEN BagAdd(pending, [stack |-> r.stk, at |-> r.at, h |-> r.h])
                  ELSE pending
    /\ last' = [op |-> op, at |-> at, ret |-> RetOf(r),
                calls |-> r.w.calls, emits |-> r.w.emits]
    /\ UNCHANGED <<platform, accessKeyLength, sensitivityInRange, pendingLimit,
                   handleLimit>>
    /\ UNCHANGED <<smsVars, formatVars, gatewayVars, orchestratorVars>>

(* The application (the useVoiceDetection hook) calls a public method.      *)
RECURSIVE BagSum(_, _)
BagSum(b, S) ==
  IF S = {} THEN 0
  ELSE LET x == CHOOSE y \in S : TRUE IN b[x] + BagSum(b, S \ {x})
BagSize(b) == BagSum(b, DOMAIN b)
Room == BagSize(tasks) < pendingLimit
CallerCan == mounted /\ Room

CallInitialize ==
  /\ CallerCan
  /\ Finish("initialize", "call", initialize([World EXCEPT !.startedNoStop = FALSE]), tasks)
  /\ UNCHANGED mounted

CallStart ==
  /\ CallerCan
  /\ Finish("start", "call", start(World), tasks)
  /\ UNCHANGED mounted

CallStop ==
  /\ CallerCan
  /\ Finish("stop", "call", stop(World), tasks)
  /\ UNCHANGED mounted

CallRequestMicrophonePermission ==
  /\ CallerCan
  /\ Finish("requestMicrophonePermission", "call", requestMicrophonePermission(World), tasks)
  /\ UNCHANGED mounted

(* updateSensitivity(sensitivity): a value in range replaces the configured *)
(* one, a value out of range is refused. Followed while the configured      *)
(* value is out of range; otherwise the call changes nothing kept here.     *)
updateSensitivity(inRange) == IF inRange THEN TRUE ELSE sensitivityInRange

CallUpdateSensitivity ==
  \E inRange \in BOOLEAN :
    /\ mounted
    /\ ~sensitivityInRange
    /\ sensitivityInRange' = updateSensitivity(inRange)
    /\ last' = [op |-> "updateSensitivity", at |-> "call", ret |-> "none",
                calls |-> {}, emits |-> <<>>]
    /\ UNCHANGED <<platform, accessKeyLength, pendingLimit, handleLimit,
                   currentState, porcupineManager, isInitialized, permissionGranted,
                   retryCount, listeners, handles, tasks, detectionTimers, retryTimers,
                   mounted, failedRecoveries, startedNoStop>>
    /\ UNCHANGED <<smsVars, formatVars, gatewayVars, orchestratorVars>>

(* The hook's unmount effect: cleanup(), then the reference is dropped.     *)
CallCleanup ==
  /\ mounted
  /\ Finish("cleanup", "call", cleanup([World EXCEPT !.startedNoStop = FALSE]), tasks)
  /\ mounted' = FALSE

(* An await on the operating system or the engine settles.                 *)
ResumeTask(t, res) ==
  /\ t \in DOMAIN tasks
  /\ Finish(t.stack[1], t.at, Resume(t, World, res), BagRemove(tasks, t))
  /\ UNCHANGED mounted

PermissionResult ==
  \E t \in DOMAIN tasks, res \in {"granted", "denied", "throw"} :
    /\ t.at = "perm"
    /\ ResumeTask(t, res)

(* PorcupineManager.create rejects a sensitivity outside [0.0, 1.0].        *)
CreateResult ==
  \E t \in DOMAIN tasks, res \in {"ok", "fail"} :
    /\ t.at = "create"
    /\ res = "ok" => sensitivityInRange /\ \E h \in HandleIds : handles[h] = "none"
    /\ ResumeTask(t, res)

EngineStartResult ==
  \E t \in DOMAIN tasks, res \in {"ok", "fail"} :
    /\ t.at = "pstart"
    /\ res = "ok" => handles[t.h] # "deleted"
    /\ ResumeTask(t, res)

EngineStopResult ==
  \E t \in DOMAIN tasks, res \in {"ok", "fail"} :
    /\ t.at = "pstop"
    /\ res = "ok" => handles[t.h] # "deleted"
    /\ ResumeTask(t, res)

EngineDeleteResult ==
  \E t \in DOMAIN tasks, res \in {"ok", "fail"} :
    /\ t.at = "pdelete"
    /\ res = "ok" => handles[t.h] # "deleted"
    /\ ResumeTask(t, res)

RecoveryWaitElapsed ==
  \E t \in DOMAIN tasks :
    /\ t.at = "wait"
    /\ ResumeTask(t, "ok")

(* The engine's callbacks, delivered while one of its handles is running.   *)
EngineRunning == \E h \in HandleIds : handles[h] = "running"

KeywordCallback ==
  /\ EngineRunning
  /\ detectionTimers < MaxTimers
  /\ Finish("handleKeywordDetection", "callback", handleKeywordDetection(World), tasks)
  /\ UNCHANGED mounted

ErrorCallback ==
  /\ EngineRunning
  /\ Room
  /\ Finish("handlePorcupineError", "callback", handlePorcupineError(World), tasks)
  /\ UNCHANGED mounted

DetectionTimerFires ==
  /\ detectionTimers > 0
  /\ Finish("detectionTimeout", "timer",
            Ret(detectionTimeout([World EXCEPT !.detectionTimers = @ - 1]), TRUE), tasks)
  /\ UNCHANGED mounted

RetryTimerFires ==
  /\ retryTimers > 0
  /\ Room
  /\ Finish("attemptRecovery", "timer",
            attemptRecovery([World EXCEPT !.retryTimers = @ - 1]), tasks)
  /\ UNCHANGED mounted

(***************************************************************************)
(* The message dispatch adapters                                           *)
(***************************************************************************)
Digits == {"0", "1", "2", "3", "4", "5", "6", "7", "8", "9"}
Whitespace == {" "}

(* message.body when the caller passed none *)
Undefined == <<"undefined">>

Recipients ==
  { <<"1", "2", "3">>,
    <<"5", "5", "5", "1", "2", "3", "4", "5", "6", "7">>,
    <<"+", "1", " ", "5", "5", "5", "-", "1", "2", "3", "-", "4", "5", "6", "7">> }

Bodies == { <<>>, <<" ">>, <<"h", "i">>, Undefined }

IsDigit(c) == c \in Digits

(* phoneNumber.replace(/\D/g, '') *)
cleaned(phoneNumber) == SelectSeq(phoneNumber, IsDigit)

validatePhoneNumber(phoneNumber) ==
  /\ Len(cleaned(phoneNumber)) >= MinPhoneDigits
  /\ Len(cleaned(phoneNumber)) <= MaxPhoneDigits

startsWith(str, c) == Len(str) > 0 /\ str[1] = c

formatPhoneNumber(phoneNumber) ==
  LET cl == cleaned(phoneNumber)
  IN  IF Len(cl) = 10 THEN <<"+", "1">> \o cl
      ELSE IF Len(cl) = 11 /\ startsWith(cl, "1") THEN <<"+">> \o cl
      ELSE IF startsWith(cl, "+") THEN phoneNumber
      ELSE <<"+">> \o cl

RECURSIVE trimStart(_)
trimStart(str) ==
  IF str # <<>> /\ str[1] \in Whitespace THEN trimStart(Tail(str)) ELSE str

RECURSIVE trimEnd(_)
trimEnd(str) ==
  IF str # <<>> /\ str[Len(str)] \in Whitespace
    THEN trimEnd(SubSeq(str, 1, Len(str) - 1))
    ELSE str

trim(str) == trimEnd(trimStart(str))

(* !message.body || message.body.trim().length === 0 *)
bodyIsEmpty(body) == body = Undefined \/ body = <<>> \/ Len(trim(body)) = 0

(* An SMSResult: success, deliveryStatus, and the error's code and flag.   *)
Sent == [success |-> TRUE, deliveryStatus |-> "sent", code |-> "",
         isRecoverable |-> FALSE]
Failure(code, isRecoverable) ==
  [success |-> FALSE, deliveryStatus |-> "failed", code |-> code,
   isRecoverable |-> isRecoverable]
Cancelled ==
  [success |-> FALSE, deliveryStatus |-> "cancelled", code |-> "SEND_CANCELLED",
   isRecoverable |-> TRUE]
NoResult == [success |-> FALSE, deliveryStatus |-> "none", code |-> "",
             isRecoverable |-> FALSE]

(* One sendSMSWithRetry call: where it is suspended (pc), its message,     *)
(* what it did for the message so far, and whether another call was in     *)
(* flight on the service at some time during it.                           *)
IdleSend ==
  [pc |-> "idle", to |-> <<>>, body |-> <<>>, attempts |-> 0, prompts |-> 0,
   natives |-> 0, posts |-> 0, sentTo |-> <<>>, lastAttempt |-> NoResult,
   result |-> NoResult, overlapped |-> FALSE]

(* The service object, with the call c that is running on it.              *)
Service(c) ==
  [permissionStatus |-> permissionStatus, smsRetryCount |-> smsRetryCount,
   messagesThisMonth |-> messagesThisMonth, c |-> c]

(* sendSMSWithRetry after its sendSMS returned result.                     *)
(* The retry test with <= in place of <.                                   *)
sendSMSWithRetry_offByOne(m, result) ==
  IF ~result.success /\ result.isRecoverable /\ m.smsRetryCount <= smsMaxRetries
    THEN [m EXCEPT !.smsRetryCount = @ + 1,
                   !.c.pc = "delay", !.c.lastAttempt = result]
    ELSE [m EXCEPT !.smsRetryCount = 0,
                   !.c.pc = "done", !.c.lastAttempt = result, !.c.result = result]

(* The retry test without the isRecoverable flag.                          *)
sendSMSWithRetry_retriesAll(m, result) ==
  IF ~result.success /\ m.smsRetryCount < smsMaxRetries
    THEN [m EXCEPT !.smsRetryCount = @ + 1,
                   !.c.pc = "delay", !.c.lastAttempt = result]
    ELSE [m EXCEPT !.smsRetryCount = 0,
                   !.c.pc = "done", !.c.lastAttempt = result, !.c.result = result]

sendSMSWithRetry_afterSend(m, result) ==
  IF ~result.success /\ result.isRecoverable /\ m.smsRetryCount < smsMaxRetries
    THEN [m EXCEPT !.smsRetryCount = @ + 1,
                   !.c.pc = "delay", !.c.lastAttempt = result]
    ELSE [m EXCEPT !.smsRetryCount = 0,
                   !.c.pc = "done", !.c.lastAttempt = result, !.c.result = result]

(* sendSMS threw: the promise of sendSMSWithRetry rejects.                 *)
sendSMSWithRetry_rejected(m) == [m EXCEPT !.c.pc = "threw"]

(* ------------------------- AndroidSMSService -------------------------- *)
Android_validateAndSend(m) ==
  IF ~validatePhoneNumber(m.c.to)
    THEN sendSMSWithRetry_afterSend(m, Failure("INVALID_PHONE_NUMBER", TRUE))
  ELSE IF bodyIsEmpty(m.c.body)
    THEN sendSMSWithRetry_afterSend(m, Failure("EMPTY_MESSAGE", TRUE))
  ELSE [m EXCEPT !.c.pc = "native", !.c.natives = @ + 1,
                 !.c.sentTo = formatPhoneNumber(m.c.to)]

Android_sendSMS(m) ==
  LET m1 == [m EXCEPT !.c.attempts = @ + 1]
  IN  IF m1.c.body = Undefined THEN sendSMSWithRetry_rejected(m1)
      ELSE IF platform # "android"
        THEN sendSMSWithRetry_afterSend(m1, Failure("PLATFORM_NOT_SUPPORTED", FALSE))
      ELSE [m1 EXCEPT !.c.pc = "check"]

(* checkSMSPermission settles: granted is what the OS answered, or the     *)
(* check threw.                                                            *)
checkSMSPermission(ps, granted, threw) ==
  IF threw
    THEN [hasPermission |-> FALSE, canRequestPermission |-> FALSE,
          isAvailable |-> FALSE]
    ELSE [hasPermission |-> granted, canRequestPermission |-> ~granted,
          isAvailable |-> TRUE]

(* requestSMSPermission settles with the OS's answer res.                  *)
requestSMSPermission(ps, res) ==
  IF res = "throw" THEN ps
  ELSE [hasPermission |-> res = "granted",
        canRequestPermission |-> res # "never_ask_again",
        isAvailable |-> TRUE]

Android_afterCheck(m, granted, threw) ==
  LET ps == checkSMSPermission(m.permissionStatus, granted, threw)
      m1 == [m EXCEPT !.permissionStatus = ps]
  IN  IF ps.hasPermission THEN Android_validateAndSend(m1)
      ELSE IF ps.canRequestPermission
        THEN [m1 EXCEPT !.c.pc = "request", !.c.prompts = @ + 1]
      ELSE sendSMSWithRetry_afterSend(m1, Failure("PERMISSION_PERMANENTLY_DENIED", FALSE))

Android_afterRequest(m, res) ==
  LET m1 == [m EXCEPT !.permissionStatus = requestSMSPermission(@, res)]
  IN  IF res = "granted" THEN Android_validateAndSend(m1)
      ELSE sendSMSWithRetry_afterSend(m1, Failure("PERMISSION_DENIED", TRUE))

(* A callback that takes completion alone for success.                     *)
SendSMS_ignoresError(completed, cancelled, error, threw) ==
  IF threw THEN Failure("SEND_ERROR", TRUE)
  ELSE IF completed THEN Sent
  ELSE IF cancelled THEN Cancelled
  ELSE Failure("SEND_FAILED", TRUE)

(* The result sendSMS makes of the callback of SendSMS.send with           *)
(* (completed, cancelled, error), or of its throwing.                      *)
SendSMS_callback(completed, cancelled, error, threw) ==
  IF threw THEN Failure("SEND_ERROR", TRUE)
  ELSE IF completed /\ ~error THEN Sent
  ELSE IF cancelled THEN Cancelled
  ELSE Failure("SEND_FAILED", TRUE)

(* SendSMS.send called back or threw: sendSMS resets retryCount on success *)
(* and returns the result to sendSMSWithRetry.                             *)
Android_afterNative(m, completed, cancelled, error, threw) ==
  LET smsResult == SendSMS_callback(completed, cancelled, error, threw)
  IN  sendSMSWithRetry_afterSend(
        IF smsResult.success THEN [m EXCEPT !.smsRetryCount = 0] ELSE m, smsResult)

(* --------------------------- IOSSMSService ---------------------------- *)
isAvailable(m) ==
  /\ platform = "ios"
  /\ m.messagesThisMonth < freeLimit
  /\ firebaseProjectId

IOS_sendSMS(m) ==
  LET m1 == [m EXCEPT !.c.attempts = @ + 1]
  IN  IF m1.c.body = Undefined THEN sendSMSWithRetry_rejected(m1)
      ELSE IF platform # "ios"
        THEN sendSMSWithRetry_afterSend(m1, Failure("PLATFORM_NOT_SUPPORTED", FALSE))
      ELSE IF ~isAvailable(m1)
        THEN sendSMSWithRetry_afterSend(m1, Failure("SERVICE_UNAVAILABLE", FALSE))
      ELSE IF ~validatePhoneNumber(m1.c.to)
        THEN sendSMSWithRetry_afterSend(m1, Failure("INVALID_PHONE_NUMBER", TRUE))
      ELSE IF bodyIsEmpty(m1.c.body)
        THEN sendSMSWithRetry_afterSend(m1, Failure("EMPTY_MESSAGE", TRUE))
      ELSE [m1 EXCEPT !.c.pc = "post", !.c.posts = @ + 1,
                      !.c.sentTo = formatPhoneNumber(m1.c.to)]

PostOutcomes ==
  {"success", "rejected", "timeout", "rate_limited", "server_error",
   "no_response", "other"}

IOS_errorCode(res) ==
  CASE res = "rejected" -> "CLOUD_FUNCTION_ERROR"
    [] res = "timeout" -> "TIMEOUT_ERROR"
    [] res = "rate_limited" -> "RATE_LIMITED"
    [] res = "server_error" -> "SERVER_ERROR"
    [] res = "no_response" -> "NETWORK_ERROR"
    [] OTHER -> "SEND_ERROR"

(* loadUsageStats, which only the constructor calls: the count it leaves,  *)
(* given whether the month differs from that of lastResetDate.             *)
loadUsageStats(count, monthDiffers) == IF monthDiffers THEN 0 ELSE count

updateUsageStats(m) == [m EXCEPT !.messagesThisMonth = @ + 1]

IOS_afterPost(m, res) ==
  IF res = "success"
    THEN sendSMSWithRetry_afterSend(updateUsageStats(m), Sent)
    ELSE sendSMSWithRetry_afterSend(m, Failure(IOS_errorCode(res), TRUE))

(* SMSManager.sendMessage: the service of the current platform.            *)
sendSMSWithRetry(m) ==
  IF platform = "android" THEN Android_sendSMS(m) ELSE IOS_sendSMS(m)

(* ----------------------------- SMS steps ------------------------------ *)
SendIds == 1..sendLimit

InFlight(c) == c.pc \notin {"idle", "done", "threw"}

SetService(i, m) ==
  /\ permissionStatus' = m.permissionStatus
  /\ smsRetryCount' = m.smsRetryCount
  /\ messagesThisMonth' = m.messagesThisMonth
  /\ sends' = [j \in SendIds |->
                IF j = i
                  THEN [m.c EXCEPT !.overlapped =
                          @ \/ \E k \in SendIds \ {i} : InFlight(sends[k])]
                  ELSE [sends[j] EXCEPT !.overlapped = @ \/ InFlight(sends[j])]]
  /\ UNCHANGED <<newMonth, firebaseProjectId, messageConfig, sendLimit, voiceVars,
                 formatVars, gatewayVars, orchestratorVars>>

(* The application sends the configured message; a finished call's slot   *)
(* is reused.                                                              *)
CallSendSMSWithRetry ==
  \E i \in SendIds :
    /\ ~InFlight(sends[i])
    /\ \A j \in SendIds : j < i => InFlight(sends[j])
    /\ SetService(i, sendSMSWithRetry(Service([IdleSend EXCEPT !.to = messageConfig.to,
                                                 !.body = messageConfig.body])))
    /\ UNCHANGED osSmsPermission

(* PermissionsAndroid.check answers the check of sendSMS.                  *)
SendCheckResult ==
  \E i \in SendIds, threw \in BOOLEAN :
    /\ sends[i].pc = "check"
    /\ SetService(i, Android_afterCheck(Service(sends[i]),
                                        osSmsPermission = "granted", threw))
    /\ UNCHANGED osSmsPermission

(* What PermissionsAndroid.request can answer, given the OS's grant.        *)
RequestAnswers ==
  CASE osSmsPermission = "granted" -> {"granted", "throw"}
    [] osSmsPermission = "never_ask_again" -> {"never_ask_again", "throw"}
    [] OTHER -> {"granted", "denied", "never_ask_again", "throw"}

AfterAnswer(res) == IF res = "throw" THEN osSmsPermission ELSE res

SendRequestResult ==
  \E i \in SendIds, res \in RequestAnswers :
    /\ sends[i].pc = "request"
    /\ SetService(i, Android_afterRequest(Service(sends[i]), res))
    /\ osSmsPermission' = AfterAnswer(res)

SendNativeResult ==
  \E i \in SendIds, completed, cancelled, error, threw \in BOOLEAN :
    /\ sends[i].pc = "native"
    /\ threw => ~completed /\ ~cancelled /\ ~error
    /\ SetService(i, Android_afterNative(Service(sends[i]), completed, cancelled,
                                         error, threw))
    /\ UNCHANGED osSmsPermission

SendPostResult ==
  \E i \in SendIds, res \in PostOutcomes :
    /\ sends[i].pc = "post"
    /\ SetService(i, IOS_afterPost(Service(sends[i]), res))
    /\ UNCHANGED osSmsPermission

(* The retry delay elapsed: sendSMSWithRetry calls itself.                 *)
SendRetryDelayElapsed ==
  \E i \in SendIds :
    /\ sends[i].pc = "delay"
    /\ sends[i].attempts < MaxAttempts
    /\ SetService(i, sendSMSWithRetry(Service(sends[i])))
    /\ UNCHANGED osSmsPermission

(* ---------------------- normalization on its own ---------------------- *)
NotFormatted == <<"none">>

(* What an input is typed from: '+', a digit, a space, punctuation, and     *)
(* groups of digits.                                                        *)
PhoneParts ==
  { <<"+">>, <<"1">>, <<" ">>, <<"-">>, <<"5", "5", "5">>, <<"1", "2", "3", "4">> }

RECURSIVE Flatten(_)
Flatten(parts) ==
  IF parts = <<>> THEN <<>> ELSE Head(parts) \o Flatten(Tail(parts))

phoneNumber == Flatten(phoneParts)

InitFormat ==
  /\ phoneParts = <<>>
  /\ formatted = NotFormatted

TypePhonePart ==
  \E part \in PhoneParts :
    /\ formatted = NotFormatted
    /\ Len(phoneParts) < MaxPhoneParts
    /\ phoneParts' = Append(phoneParts, part)
    /\ UNCHANGED <<formatted, voiceVars, smsVars, gatewayVars, orchestratorVars>>

CallFormatPhoneNumber ==
  /\ formatted = NotFormatted
  /\ formatted' = formatPhoneNumber(phoneNumber)
  /\ UNCHANGED <<phoneParts, voiceVars, smsVars, gatewayVars, orchestratorVars>>

(* The calendar moves on to the next month; no code runs.                  *)
MonthBegins ==
  /\ platform = "ios"
  /\ ~newMonth
  /\ newMonth' = TRUE
  /\ UNCHANGED <<osSmsPermission, permissionStatus, smsRetryCount, messagesThisMonth,
                 firebaseProjectId, messageConfig, sendLimit, sends, voiceVars,
                 formatVars, gatewayVars, orchestratorVars>>

(***************************************************************************)
(* The permission gateway (usePermissions)                                 *)
(***************************************************************************)
PermissionTypes == {"microphone", "contacts", "sms"}

NoGatewayStep == [op |-> "none", type |-> "none", ret |-> "none"]

GatewayStep(op, type, ret) == [op |-> op, type |-> type, ret |-> ret]

Gateway ==
  [permissions |-> permissions, criticalPermissionsDenied |-> criticalPermissionsDenied]

(* setPermissions(prev => ...): the updates are merged into the record of   *)
(* the type and the flag is computed from prev, the state before the merge. *)
updatePermission(g, type, updates) ==
  IF ~isMountedRef THEN g
  ELSE [permissions |->
          [g.permissions EXCEPT ![type] =
             [f \in DOMAIN g.permissions[type] |->
                IF f \in DOMAIN updates THEN updates[f] ELSE g.permissions[type][f]]],
        criticalPermissionsDenied |->
          g.permissions["microphone"].status \in {"denied", "never_ask_again"}]

SetGateway(g) ==
  /\ permissions' = g.permissions
  /\ criticalPermissionsDenied' = g.criticalPermissionsDenied

GatewayRoom == Cardinality(gatewayCalls) < MaxGatewayCalls

(* checkPermission up to PermissionsAndroid.check; on iOS to its return.    *)
CallCheckPermission ==
  \E type \in PermissionTypes :
    /\ IF platform = "android"
       THEN /\ GatewayRoom
            /\ <<"check", type>> \notin gatewayCalls
            /\ gatewayCalls' = gatewayCalls \cup {<<"check", type>>}
            /\ lastGateway' = GatewayStep("checkPermission", type, "await")
            /\ UNCHANGED <<permissions, criticalPermissionsDenied>>
       ELSE /\ SetGateway(updatePermission(Gateway, type, [status |-> "undetermined"]))
            /\ lastGateway' = GatewayStep("checkPermission", type, "undetermined")
            /\ UNCHANGED gatewayCalls
    /\ UNCHANGED <<isMountedRef, osPermissions, voiceVars, smsVars, formatVars, orchestratorVars>>

(* PermissionsAndroid.check answers, or throws.                             *)
CheckResult ==
  \E type \in PermissionTypes, threw \in BOOLEAN :
    /\ <<"check", type>> \in gatewayCalls
    /\ gatewayCalls' = gatewayCalls \ {<<"check", type>>}
    /\ IF threw
       THEN /\ lastGateway' = GatewayStep("checkPermission", type, "unavailable")
            /\ UNCHANGED <<permissions, criticalPermissionsDenied>>
       ELSE \E status \in {IF osPermissions[type] = "granted" THEN "granted" ELSE "denied"} :
              /\ SetGateway(updatePermission(Gateway, type, [status |-> status]))
              /\ lastGateway' = GatewayStep("checkPermission", type, status)
    /\ UNCHANGED <<isMountedRef, osPermissions, voiceVars, smsVars, formatVars, orchestratorVars>>

(* requestPermission up to PermissionsAndroid.request; on iOS to its return. *)
CallRequestPermission ==
  \E type \in PermissionTypes :
    /\ permissions[type].requestCount < MaxRequests
    /\ \E counted \in {updatePermission(Gateway, type,
                          [requestCount |-> permissions[type].requestCount + 1])} :
         IF platform = "android"
         THEN /\ GatewayRoom
              /\ <<"request", type>> \notin gatewayCalls
              /\ SetGateway(counted)
              /\ gatewayCalls' = gatewayCalls \cup {<<"request", type>>}
              /\ lastGateway' = GatewayStep("requestPermission", type, "await")
         ELSE /\ SetGateway(updatePermission(counted, type, [status |-> "granted"]))
              /\ lastGateway' = GatewayStep("requestPermission", type, "granted")
              /\ UNCHANGED gatewayCalls
    /\ UNCHANGED <<isMountedRef, osPermissions, voiceVars, smsVars, formatVars, orchestratorVars>>

(* What PermissionsAndroid.request can answer, given what the OS holds.     *)
GatewayAnswers(held) ==
  CASE held = "granted" -> {"granted", "throw"}
    [] held = "never_ask_again" -> {"never_ask_again", "throw"}
    [] OTHER -> {"granted", "denied", "never_ask_again", "throw"}

(* PermissionsAndroid.request answers, or throws.                           *)
RequestResult ==
  \E type \in PermissionTypes :
    \E res \in GatewayAnswers(osPermissions[type]) :
      /\ <<"request", type>> \in gatewayCalls
      /\ gatewayCalls' = gatewayCalls \ {<<"request", type>>}
      /\ osPermissions' = [osPermissions EXCEPT ![type] = IF res = "throw" THEN @ ELSE res]
      /\ \E status \in {IF res = "throw" THEN "unavailable" ELSE res} :
           /\ SetGateway(updatePermission(Gateway, type, [status |-> status]))
           /\ lastGateway' = GatewayStep("requestPermission", type, status)
      /\ UNCHANGED <<isMountedRef, voiceVars, smsVars, formatVars, orchestratorVars>>

(* The user grants the permission in the device settings; no code runs.     *)
UserGrantsInSettings ==
  \E type \in PermissionTypes :
    /\ osPermissions[type] = "never_ask_again"
    /\ osPermissions' = [osPermissions EXCEPT ![type] = "granted"]
    /\ UNCHANGED <<permissions, criticalPermissionsDenied, isMountedRef, gatewayCalls,
                   lastGateway, voiceVars, smsVars, formatVars,
                   orchestratorVars>>

(* The unmount effect of the hook.                                          *)
GatewayUnmount ==
  /\ isMountedRef
  /\ isMountedRef' = FALSE
  /\ UNCHANGED <<permissions, criticalPermissionsDenied, osPermissions, gatewayCalls,
                 lastGateway, voiceVars, smsVars, formatVars,
                   orchestratorVars>>

InitGateway ==
  /\ permissions = [type \in PermissionTypes |->
                      [status |-> "undetermined", requestCount |-> 0]]
  /\ criticalPermissionsDenied = FALSE
  /\ isMountedRef = TRUE
  /\ osPermissions = [type \in PermissionTypes |-> "denied"]
  /\ gatewayCalls = {}
  /\ lastGateway = NoGatewayStep

(***************************************************************************)
(* The dispatch orchestrator (useVoiceDetection, HomeScreen)               *)
(***************************************************************************)
VoiceEventTypes ==
  {"keyword_detected", "listening_started", "listening_stopped", "permission_denied",
   "error"}

(* What is passed to updateState: an object literal, or an updater function. *)
Updates(props) == [kind |-> "object", props |-> props]

Updater == [kind |-> "function"]

(* { ...updates }: the own enumerable properties; a function has none.      *)
Spread(updates) == IF updates.kind = "function" THEN <<>> ELSE updates.props

updateState(state, updates) ==
  IF ~isComponentMountedRef THEN state
  ELSE [f \in DOMAIN state |->
          IF f \in DOMAIN Spread(updates) THEN Spread(updates)[f] ELSE state[f]]

handleVoiceEvent(state, type) ==
  IF ~isComponentMountedRef THEN state
  ELSE CASE type = "keyword_detected" -> updateState(state, Updater)
         [] type = "listening_started" ->
              updateState(state, Updates([isListening |-> TRUE, isLoading |-> FALSE,
                                          serviceState |-> "listening", error |-> "null"]))
         [] type = "listening_stopped" ->
              updateState(state, Updates([isListening |-> FALSE, isLoading |-> FALSE,
                                          serviceState |-> "idle"]))
         [] type = "permission_denied" ->
              updateState(state, Updates([hasPermission |-> FALSE, error |-> "event",
                                          serviceState |-> "permission_denied",
                                          isLoading |-> FALSE]))
         [] type = "error" ->
              updateState(state, Updates([error |-> "event", serviceState |-> "error",
                                          isLoading |-> FALSE, isListening |-> FALSE]))

(* JavaScript values as HomeScreen reads them off the hook.                 *)
JSValue(x) == [type |-> "value", value |-> x]

JSUndefined == [type |-> "undefined"]

TypeError == [type |-> "TypeError"]

(* obj.field: undefined for a property the object lacks, a TypeError for a   *)
(* property of undefined.                                                   *)
Get(obj, field) ==
  IF obj.type # "value" THEN TypeError
  ELSE IF field \in DOMAIN obj.value THEN JSValue(obj.value[field])
  ELSE JSUndefined

(* What useVoiceDetection returns: the fields of its state; the callbacks    *)
(* it returns besides are left out.                                         *)
UseVoiceDetectionReturn == JSValue(voiceDetection)

(* const { state: voiceState } = useVoiceDetection()                        *)
voiceState == Get(UseVoiceDetectionReturn, "state")

keywordDetected == Get(voiceState, "keywordDetected")

(* The condition under which the keyword effect of HomeScreen calls         *)
(* handleSendMessage, which calls sendMessage with messageConfig.           *)
KeywordEffectSends ==
  /\ keywordDetected.type = "value"
  /\ keywordDetected.value = TRUE
  /\ isConfigured

HookFrame ==
  UNCHANGED <<isConfigured, appState, voiceVars, smsVars, formatVars, gatewayVars>>

AppFrame == UNCHANGED <<appStateRef, appStateHandler, pausedListening>>

(* initializeVoiceService up to the await of initialize(), begun from the    *)
(* state st; next is the hook call that waits if the service takes over.    *)
BeginInitialize(st, next) ==
  \E loading \in {updateState(st, Updates([isLoading |-> TRUE, error |-> "null"]))} :
    IF accessKeyLength = 0
    THEN /\ voiceDetection' =
              updateState(loading, Updates([error |-> "INIT_HOOK_ERROR",
                                            isLoading |-> FALSE,
                                            isInitialized |-> FALSE]))
         /\ UNCHANGED <<voiceServiceRef, hookCall>>
    ELSE /\ voiceDetection' = loading
         /\ voiceServiceRef' = TRUE
         /\ hookCall' = next

(* The mount effect of the hook, and retryInitialization.                   *)
HookInitialize ==
  \E retry \in BOOLEAN :
    /\ isComponentMountedRef
    /\ hookCall = "none"
    /\ ~retry => accessKeyLength # 0 /\ ~voiceServiceRef
    /\ BeginInitialize(IF retry THEN updateState(voiceDetection,
                                                 Updates([error |-> "null"]))
                       ELSE voiceDetection, "initialize")
    /\ UNCHANGED <<isComponentMountedRef, detections>>
    /\ HookFrame
    /\ AppFrame

(* initializeVoiceService after initialize() returned.                      *)
afterInitialize(st, success) ==
  IF success
  THEN updateState(st, Updates([isInitialized |-> TRUE, hasPermission |-> TRUE,
                                serviceState |-> "idle", isLoading |-> FALSE]))
  ELSE updateState(st, Updates([isLoading |-> FALSE, isInitialized |-> FALSE]))

HookInitializeResult ==
  \E success \in BOOLEAN :
    /\ hookCall \in {"initialize", "start_initialize"}
    /\ IF hookCall = "start_initialize" /\ success /\ voiceServiceRef
       THEN /\ voiceDetection' =
                 updateState(afterInitialize(voiceDetection, success),
                             Updates([isLoading |-> TRUE, error |-> "null"]))
            /\ hookCall' = "start"
       ELSE /\ voiceDetection' = afterInitialize(voiceDetection, success)
            /\ hookCall' = "none"
    /\ UNCHANGED <<isComponentMountedRef, voiceServiceRef, detections>>
    /\ HookFrame
    /\ AppFrame

HookStartListening ==
  /\ isComponentMountedRef
  /\ hookCall = "none"
  /\ IF ~voiceServiceRef
     THEN BeginInitialize(voiceDetection, "start_initialize")
     ELSE /\ voiceDetection' =
               updateState(voiceDetection, Updates([isLoading |-> TRUE, error |-> "null"]))
          /\ hookCall' = "start"
          /\ UNCHANGED voiceServiceRef
  /\ UNCHANGED <<isComponentMountedRef, detections>>
  /\ HookFrame
  /\ AppFrame

HookStopListening ==
  /\ isComponentMountedRef
  /\ hookCall = "none"
  /\ IF ~voiceServiceRef
     THEN /\ voiceDetection' =
               updateState(voiceDetection,
                           Updates([isListening |-> FALSE, isLoading |-> FALSE]))
          /\ UNCHANGED hookCall
     ELSE /\ voiceDetection' = updateState(voiceDetection, Updates([isLoading |-> TRUE]))
          /\ hookCall' = "stop"
  /\ UNCHANGED <<isComponentMountedRef, voiceServiceRef, detections>>
  /\ HookFrame
  /\ pausedListening' = FALSE
  /\ UNCHANGED <<appStateRef, appStateHandler>>

(* startListening and stopListening after start() or stop() returned.       *)
HookStartStopResult ==
  \E success \in BOOLEAN :
    /\ hookCall \in {"start", "stop"}
    /\ hookCall' = "none"
    /\ voiceDetection' = IF success THEN voiceDetection
                         ELSE updateState(voiceDetection, Updates([isLoading |-> FALSE]))
    /\ UNCHANGED <<isComponentMountedRef, voiceServiceRef, detections>>
    /\ HookFrame
    /\ appStateRef' = IF appStateHandler # "none" THEN appStateHandler ELSE appStateRef
    /\ appStateHandler' = "none"
    /\ UNCHANGED pausedListening

HookClearError ==
  /\ isComponentMountedRef
  /\ voiceDetection' = updateState(voiceDetection, Updates([error |-> "null"]))
  /\ UNCHANGED <<isComponentMountedRef, voiceServiceRef, hookCall, detections>>
  /\ HookFrame
  /\ AppFrame

HookClearKeywordHistory ==
  /\ isComponentMountedRef
  /\ voiceDetection' = updateState(voiceDetection, Updates([detectedKeywords |-> 0]))
  /\ UNCHANGED <<isComponentMountedRef, voiceServiceRef, hookCall, detections>>
  /\ HookFrame
  /\ AppFrame

(* The service emits an event to handleVoiceEvent; a keyword_detected only   *)
(* while it is listening.                                                   *)
VoiceServiceEmits ==
  \E type \in VoiceEventTypes :
    /\ voiceServiceRef
    /\ type = "keyword_detected" =>
         voiceDetection.isListening /\ detections < MaxDetections
    /\ voiceDetection' = handleVoiceEvent(voiceDetection, type)
    /\ detections' = IF type = "keyword_detected" THEN detections + 1 ELSE detections
    /\ UNCHANGED <<isComponentMountedRef, voiceServiceRef, hookCall>>
    /\ HookFrame
    /\ AppFrame

(* The unmount effect of the hook.                                          *)
HookUnmount ==
  /\ isComponentMountedRef
  /\ isComponentMountedRef' = FALSE
  /\ voiceServiceRef' = FALSE
  /\ UNCHANGED <<voiceDetection, hookCall, detections>>
  /\ HookFrame
  /\ AppFrame

(* The mount effect of HomeScreen sets the demo binding.                    *)
LoadDemoConfiguration ==
  /\ ~isConfigured
  /\ isConfigured' = TRUE
  /\ UNCHANGED <<voiceDetection, isComponentMountedRef, voiceServiceRef, hookCall,
                 detections, appVars, voiceVars, smsVars, formatVars, gatewayVars>>

AppStates == {"active", "background", "inactive"}

(* appState.match(/inactive|background/) *)
InBackground(state) == state \in {"inactive", "background"}

(* AppState changes and handleAppStateChange runs, up to the await of      *)
(* startListening or stopListening; appStateRef.current is set after it.   *)
handleAppStateChange ==
  \E nextAppState \in AppStates \ {appState} :
    /\ isComponentMountedRef
    /\ hookCall = "none"
    /\ appState' = nextAppState
    /\ IF /\ InBackground(appStateRef) /\ nextAppState = "active"
          /\ voiceDetection.isListening /\ voiceServiceRef
       THEN /\ voiceDetection' =
                 updateState(voiceDetection, Updates([isLoading |-> TRUE, error |-> "null"]))
            /\ hookCall' = "start"
            /\ appStateHandler' = nextAppState
            /\ pausedListening' = FALSE
            /\ UNCHANGED appStateRef
       ELSE IF /\ appStateRef = "active" /\ InBackground(nextAppState)
               /\ voiceDetection.isListening /\ voiceServiceRef
       THEN /\ voiceDetection' = updateState(voiceDetection, Updates([isLoading |-> TRUE]))
            /\ hookCall' = "stop"
            /\ appStateHandler' = nextAppState
            /\ pausedListening' = TRUE
            /\ UNCHANGED appStateRef
       ELSE /\ appStateRef' = nextAppState
            /\ pausedListening' = (pausedListening /\ nextAppState # "active")
            /\ UNCHANGED <<voiceDetection, hookCall, appStateHandler>>
    /\ UNCHANGED <<isComponentMountedRef, voiceServiceRef, detections, isConfigured,
                   voiceVars, smsVars, formatVars, gatewayVars>>

InitOrchestrator ==
  /\ voiceDetection = [isListening |-> FALSE, isLoading |-> FALSE, hasPermission |-> FALSE,
                       error |-> "null", serviceState |-> "idle", detectedKeywords |-> 0,
                       isInitialized |-> FALSE]
  /\ isComponentMountedRef = TRUE
  /\ voiceServiceRef = FALSE
  /\ hookCall = "none"
  /\ isConfigured = FALSE
  /\ detections = 0
  /\ appState = "active"
  /\ appStateRef = "active"
  /\ appStateHandler = "none"
  /\ pausedListening = FALSE

(* The application makes one call on the listener at a time, and the       *)
(* engine hands out MaxHandles handles.                                    *)
SerialCalls ==
  /\ pendingLimit = MaxPending
  /\ handleLimit = MaxHandles
  /\ sendLimit = MaxSends

(* The application's calls on the listener overlap.                        *)
OverlappingCalls ==
  /\ pendingLimit = MaxOverlap
  /\ handleLimit = MaxOverlapHandles
  /\ sendLimit = MaxSends

(* The application's sends overlap: a detection's send begins while an     *)
(* earlier one is in flight.                                               *)
OverlappingSends ==
  /\ pendingLimit = MaxPending
  /\ handleLimit = MaxHandles
  /\ sendLimit = MaxOverlapSends

NoStep == [op |-> "none", at |-> "", ret |-> "none", calls |-> {}, emits |-> <<>>]

InitVoice ==
  /\ currentState = "idle"
  /\ porcupineManager = 0
  /\ isInitialized = FALSE
  /\ permissionGranted = FALSE
  /\ retryCount = 0
  /\ listeners = TRUE
  /\ handles = [h \in HandleIds |-> "none"]
  /\ tasks = NoTasks
  /\ detectionTimers = 0
  /\ retryTimers = 0
  /\ mounted = TRUE
  /\ last = NoStep
  /\ failedRecoveries = 0
  /\ startedNoStop = FALSE

InitSMS ==
  /\ permissionStatus = [hasPermission |-> FALSE, canRequestPermission |-> TRUE,
                         isAvailable |-> platform = "android"]
  /\ smsRetryCount = 0
  /\ newMonth = FALSE
  /\ sends = [i \in SendIds |-> IdleSend]

(* The dispatch adapter before any use, with a valid message configured.   *)
QuietSMS ==
  /\ InitSMS
  /\ osSmsPermission = "denied"
  /\ messagesThisMonth = loadUsageStats(0, FALSE)
  /\ firebaseProjectId = TRUE
  /\ messageConfig = [to |-> <<"5", "5", "5", "1", "2", "3", "4", "5", "6", "7">>,
                      body |-> <<"h", "i">>]

vars == <<voiceVars, smsVars, formatVars, gatewayVars, orchestratorVars>>

(* The listener, with the dispatch adapters at rest.                       *)
Init ==
  /\ platform \in {"android", "ios"}
  /\ accessKeyLength \in {MinAccessKeyLength - 1, MinAccessKeyLength}
  /\ sensitivityInRange \in BOOLEAN
  /\ SerialCalls
  /\ InitVoice
  /\ QuietSMS
  /\ InitFormat
  /\ InitGateway
  /\ InitOrchestrator

Next ==
  \/ CallInitialize
  \/ CallStart
  \/ CallStop
  \/ CallRequestMicrophonePermission
  \/ CallUpdateSensitivity
  \/ CallCleanup
  \/ PermissionResult
  \/ CreateResult
  \/ EngineStartResult
  \/ EngineStopResult
  \/ EngineDeleteResult
  \/ RecoveryWaitElapsed
  \/ KeywordCallback
  \/ ErrorCallback
  \/ DetectionTimerFires
  \/ RetryTimerFires

Spec == Init /\ [][Next]_vars

(* The listener under calls that overlap, configured with a valid access   *)
(* key and sensitivity.                                                    *)
InitOverlap ==
  /\ platform = "android"
  /\ accessKeyLength = MinAccessKeyLength
  /\ sensitivityInRange = TRUE
  /\ OverlappingCalls
  /\ InitVoice
  /\ QuietSMS
  /\ InitFormat
  /\ InitGateway
  /\ InitOrchestrator

NextOverlap ==
  \/ CallInitialize
  \/ CallStart
  \/ CallStop
  \/ CallRequestMicrophonePermission
  \/ CallCleanup
  \/ PermissionResult
  \/ CreateResult
  \/ EngineStartResult
  \/ EngineStopResult
  \/ EngineDeleteResult
  \/ RecoveryWaitElapsed
  \/ KeywordCallback
  \/ ErrorCallback
  \/ DetectionTimerFires
  \/ RetryTimerFires

SpecOverlap == InitOverlap /\ [][NextOverlap]_vars

(* The dispatch adapter of the platform, with the listener at rest.        *)
InitDispatch ==
  /\ accessKeyLength = MinAccessKeyLength
  /\ sensitivityInRange = TRUE
  /\ SerialCalls
  /\ InitVoice
  /\ messageConfig \in [to : Recipients, body : Bodies]
  /\ \/ /\ platform = "android"
        /\ osSmsPermission \in {"denied", "granted", "never_ask_again"}
        /\ messagesThisMonth = 0
        /\ firebaseProjectId = TRUE
     \/ /\ platform = "ios"
        /\ osSmsPermission = "denied"
        /\ messagesThisMonth \in (freeLimit - QuotaWindow)..freeLimit
        /\ firebaseProjectId \in BOOLEAN
        /\ ~firebaseProjectId => messagesThisMonth = freeLimit - QuotaWindow
  /\ InitSMS
  /\ InitFormat
  /\ InitGateway
  /\ InitOrchestrator

NextAndroid ==
  \/ SendCheckResult
  \/ SendRequestResult
  \/ SendNativeResult

NextDispatch ==
  \/ CallSendSMSWithRetry
  \/ SendRetryDelayElapsed
  \/ SendPostResult
  \/ MonthBegins
  \/ NextAndroid

SpecDispatch == InitDispatch /\ [][NextDispatch]_vars

(* The dispatch adapter under sends that overlap, with a valid message     *)
(* configured.                                                             *)
InitSendOverlap ==
  /\ accessKeyLength = MinAccessKeyLength
  /\ sensitivityInRange = TRUE
  /\ OverlappingSends
  /\ InitVoice
  /\ messageConfig = [to |-> <<"5", "5", "5", "1", "2", "3", "4", "5", "6", "7">>,
                      body |-> <<"h", "i">>]
  /\ \/ /\ platform = "android"
        /\ osSmsPermission \in {"denied", "granted"}
        /\ messagesThisMonth = 0
     \/ /\ platform = "ios"
        /\ osSmsPermission = "denied"
        /\ messagesThisMonth \in (freeLimit - QuotaWindow)..freeLimit
  /\ firebaseProjectId = TRUE
  /\ InitSMS
  /\ InitFormat
  /\ InitGateway
  /\ InitOrchestrator

SpecSendOverlap == InitSendOverlap /\ [][NextDispatch]_vars

(* formatPhoneNumber on its own, with the listener and the adapters at     *)
(* rest.                                                                   *)
InitNormalize ==
  /\ platform = "android"
  /\ accessKeyLength = MinAccessKeyLength
  /\ sensitivityInRange = TRUE
  /\ SerialCalls
  /\ InitVoice
  /\ QuietSMS
  /\ InitFormat
  /\ InitGateway
  /\ InitOrchestrator

NextNormalize ==
  \/ TypePhonePart
  \/ CallFormatPhoneNumber

SpecNormalize == InitNormalize /\ [][NextNormalize]_vars

(* The permission gateway on its own, with the listener and the adapters   *)
(* at rest.                                                                *)
InitPermissions ==
  /\ platform \in {"android", "ios"}
  /\ accessKeyLength = MinAccessKeyLength
  /\ sensitivityInRange = TRUE
  /\ SerialCalls
  /\ InitVoice
  /\ QuietSMS
  /\ InitFormat
  /\ InitGateway
  /\ InitOrchestrator

NextPermissions ==
  \/ CallCheckPermission
  \/ CheckResult
  \/ CallRequestPermission
  \/ RequestResult
  \/ UserGrantsInSettings
  \/ GatewayUnmount

SpecPermissions == InitPermissions /\ [][NextPermissions]_vars

(* The hook and the keyword effect on their own, the hook configured with   *)
(* an access key or with none.                                              *)
InitHome ==
  /\ platform = "android"
  /\ accessKeyLength \in {0, MinAccessKeyLength}
  /\ sensitivityInRange = TRUE
  /\ SerialCalls
  /\ InitVoice
  /\ QuietSMS
  /\ InitFormat
  /\ InitGateway
  /\ InitOrchestrator

NextHome ==
  \/ HookInitialize
  \/ HookInitializeResult
  \/ HookStartListening
  \/ HookStopListening
  \/ HookStartStopResult
  \/ HookClearError
  \/ HookClearKeywordHistory
  \/ VoiceServiceEmits
  \/ HookUnmount
  \/ LoadDemoConfiguration
  \/ handleAppStateChange

SpecHome == InitHome /\ [][NextHome]_vars

(***************************************************************************)
(* Properties of the listener                                              *)
(***************************************************************************)
RecoveryPending ==
  retryTimers > 0 \/ \E t \in DOMAIN tasks : t.stack[1] = "attemptRecovery"

Emitted(step, type) == \E i \in DOMAIN step.emits : step.emits[i].type = type

(* C1: once three recovery attempts in a row have failed, no further       *)
(* recovery attempt (the increment of retryCount that opens the stop/start *)
(* sequence) is made on a listener its owner still holds.                  *)
C1_NoFourthRecoveryAttempt ==
  [][(mounted /\ retryCount' = retryCount + 1) => failedRecoveries < maxRetries]_vars

(* C2: retryCount goes back to zero only in the step that completes a      *)
(* recovery whose start() returned true with the listener Listening.       *)
C2_ResetOnlyAfterSuccessfulRecovery ==
  [][(retryCount > 0 /\ retryCount' = 0) =>
       /\ last'.op = "attemptRecovery"
       /\ last'.ret = "true"
       /\ currentState' = "listening"]_vars

(* C3: when a recovery attempt has just failed and the bound of three is   *)
(* not reached, the listener is not left in Error with no further attempt  *)
(* pending.                                                                *)
C3_FailedRecoveryIsRetried ==
  (/\ last.op = "attemptRecovery"
   /\ last.at \notin {"callback", "timer"}
   /\ last.ret = "false"
   /\ currentState = "error"
   /\ retryCount < maxRetries
   /\ failedRecoveries < maxRetries) => RecoveryPending

(* C4: a keyword callback delivered while the state is not Listening emits *)
(* no keyword_detected event.                                              *)
C4_DetectionOnlyWhileListening ==
  [][(detectionTimers' = detectionTimers + 1 /\ currentState # "listening") =>
       ~Emitted(last', "keyword_detected")]_vars

(* C5: a keyword callback in Listening moves the state to Processing and   *)
(* emits one keyword_detected event; the 1000 ms timer puts the state back *)
(* to Listening exactly when it is still Processing and otherwise leaves   *)
(* it as it is.                                                            *)
C5_DetectionWindow ==
  [][/\ (detectionTimers' = detectionTimers + 1 /\ currentState = "listening") =>
          /\ currentState' = "processing"
          /\ last'.emits = <<Event("keyword_detected", "", TRUE)>>
     /\ (detectionTimers' = detectionTimers - 1) =>
          currentState' = IF currentState = "processing" THEN "listening"
                          ELSE currentState]_vars

(* The timer fired after a stop() completed inside the window.             *)
C5_Witness ==
  /\ last.op = "detectionTimeout"
  /\ currentState = "idle"
  /\ porcupineManager # 0
  /\ handles[porcupineManager] = "stopped"

(* C6: a start() called after a start() returned true with no stop() since *)
(* returns true without calling PorcupineManager.create or the engine's    *)
(* start.                                                                  *)
C6_StartIdempotent ==
  [][(last'.op = "start" /\ last'.at = "call" /\ startedNoStop) =>
       /\ last'.ret = "true"
       /\ last'.calls = {}]_vars

(* C7: stop() called in Idle returns true at once, makes no engine call,   *)
(* emits nothing, suspends nothing and leaves the state Idle.              *)
C7_StopIdempotent ==
  [][(last'.op = "stop" /\ last'.at = "call" /\ currentState = "idle") =>
       /\ last'.ret = "true"
       /\ last'.calls = {}
       /\ last'.emits = <<>>
       /\ currentState' = "idle"
       /\ tasks' = tasks]_vars

(* stop() returned at once on an initialized, Idle listener.               *)
C7_Witness ==
  /\ last.op = "stop"
  /\ last.at = "call"
  /\ last.ret = "true"
  /\ isInitialized
  /\ porcupineManager # 0
  /\ currentState = "idle"

(* C23: whenever the listener is Listening and none of its calls is in    *)
(* flight, its porcupineManager is a handle of the engine that is running. *)
C23_ListeningMeansRunning ==
  (currentState = "listening" /\ tasks = NoTasks) =>
    porcupineManager # 0 /\ handles[porcupineManager] = "running"

(* C24: when a stop() the application called has just returned true, the  *)
(* next step, if it is one of a recovery attempt, neither calls            *)
(* porcupineManager.start() nor makes the listener Listening.              *)
C24_StopHolds ==
  [][(last.op = "stop" /\ last.ret = "true" /\ mounted /\
      last'.op = "attemptRecovery") =>
       /\ "porcupineManager.start" \notin last'.calls
       /\ currentState' # "listening"]_vars

(* The classifier handles created and not deleted.                        *)
LiveHandles == {h \in HandleIds : handles[h] \notin {"none", "deleted"}}

(* C26: once initialize() has run on a listener whose classifier is       *)
(* running, the listener still holds at most one live classifier handle    *)
(* and its state is not Idle.                                              *)
C26_OneLiveHandle ==
  (EngineRunning /\ last.op = "initialize" /\ tasks = NoTasks) =>
    /\ Cardinality(LiveHandles) <= 1
    /\ currentState # "idle"

(* cleanup() has run to its end: the hook has unmounted, no cleanup call is *)
(* suspended, and the listeners are removed (only cleanup removes them).   *)
CleanedUp ==
  /\ ~mounted
  /\ ~listeners
  /\ \A t \in DOMAIN tasks : t.stack[1] # "cleanup"

(* C27: after cleanup() has completed the listener holds no classifier     *)
(* handle; a recovery attempt pending when cleanup() ran creates none.     *)
C27_CleanedUpStays ==
  (CleanedUp /\ last.op = "attemptRecovery") =>
    /\ porcupineManager = 0
    /\ "PorcupineManager.create" \notin last.calls

(* The recovery procedures in flight: the attemptRecovery calls suspended *)
(* in their stop, wait or start, and those a 3000 ms timer is to begin.    *)
RecoveriesInFlight ==
  BagSum(tasks, {t \in DOMAIN tasks : t.stack[1] = "attemptRecovery"}) + retryTimers

(* C25: at most one recovery procedure is in flight, and retryCount never  *)
(* exceeds maxRetries.                                                     *)
C25_OneRecoveryInFlight ==
  /\ RecoveriesInFlight <= 1
  /\ retryCount <= maxRetries

(***************************************************************************)
(* Claims about the dispatch adapters (SpecDispatch)                       *)
(***************************************************************************)
Returned(c) == c.pc = "done"

C9_InvalidRecipientNotRetried ==
  \A i \in SendIds :
    ~validatePhoneNumber(sends[i].to) =>
      /\ sends[i].prompts = 0
      /\ sends[i].natives = 0
      /\ sends[i].posts = 0
      /\ sends[i].lastAttempt.code = "INVALID_PHONE_NUMBER" =>
           /\ ~sends[i].lastAttempt.isRecoverable
           /\ sends[i].attempts = 1
           /\ Returned(sends[i])

(* C10: an empty or whitespace-only body fails with EMPTY_MESSAGE marked   *)
(* non-recoverable on both platforms, whatever the recipient, permission    *)
(* and quota are, and is not retried.                                       *)
C10_EmptyMessageNotRetried ==
  \A i \in SendIds :
    (Returned(sends[i]) /\ bodyIsEmpty(sends[i].body)) =>
      /\ ~sends[i].result.success
      /\ sends[i].result.code = "EMPTY_MESSAGE"
      /\ ~sends[i].result.isRecoverable
      /\ sends[i].attempts = 1

(***************************************************************************)
(* Claims about phone normalization (SpecNormalize)                        *)
(***************************************************************************)
(* C11: formatPhoneNumber gives '+1' and the digits for an input with      *)
(* exactly 10 digits, '+' and the digits for an input with 11 digits that   *)
(* begin with 1, and returns any other input that starts with '+'           *)
(* unchanged (checked on the inputs sendSMS formats: 10 to 15 digits).      *)
C11_Normalization ==
  (formatted # NotFormatted /\ validatePhoneNumber(phoneNumber)) =>
    /\ Len(cleaned(phoneNumber)) = 10 => formatted = <<"+", "1">> \o cleaned(phoneNumber)
    /\ (Len(cleaned(phoneNumber)) = 11 /\ cleaned(phoneNumber)[1] = "1") =>
         formatted = <<"+">> \o cleaned(phoneNumber)
    /\ (phoneNumber[1] = "+" /\ Len(cleaned(phoneNumber)) \notin {10, 11}) =>
         formatted = phoneNumber

(***************************************************************************)
(* Further claims about the dispatch adapters (SpecDispatch)               *)
(***************************************************************************)
(* C12: on Android a send attempt made without the SEND_SMS grant prompts   *)
(* for it at most once, and the PERMISSION_DENIED result of an attempt is   *)
(* marked recoverable only if the OS did not answer never_ask_again.        *)
C12_PermissionDeniedFlag ==
  \A i \in SendIds :
    /\ sends[i].prompts <= sends[i].attempts
    /\ ( /\ platform = "android"
         /\ sends[i].lastAttempt.code = "PERMISSION_DENIED"
         /\ osSmsPermission = "never_ask_again" ) =>
         ~sends[i].lastAttempt.isRecoverable

(* A step in which call i begins a send attempt.                           *)
AttemptBegins(i) ==
  /\ sends'[i] # sends[i]
  /\ ~InFlight(sends[i]) \/ sends[i].pc = "delay"

(* C13: on iOS an attempt begun with the month's count at the quota is      *)
(* rejected with a non-recoverable error and without a POST, and an attempt *)
(* begun after the next month has begun is not rejected for the quota.      *)
C13_QuotaUntilNextMonth ==
  [][\A i \in SendIds :
       (AttemptBegins(i) /\ platform = "ios" /\ sends'[i].body # Undefined) =>
         /\ (~newMonth /\ messagesThisMonth >= freeLimit) =>
              /\ sends'[i].pc = "done"
              /\ sends'[i].result.code = "SERVICE_UNAVAILABLE"
              /\ ~sends'[i].result.isRecoverable
         /\ (newMonth /\ firebaseProjectId) =>
              sends'[i].lastAttempt.code # "SERVICE_UNAVAILABLE"]_vars

(* C17: with the listener in PermissionDenied after a refusal, a start()     *)
(* call does not prompt for the microphone permission and leaves the        *)
(* listener in PermissionDenied without a classifier.                       *)
C17_NoPromptFromStart ==
  [][( /\ currentState = "permission_denied"
       /\ ~permissionGranted
       /\ last'.op = "start" /\ last'.at = "call" ) =>
       /\ "PermissionsAndroid.request" \notin last'.calls
       /\ currentState' = "permission_denied"
       /\ porcupineManager' = 0]_vars

(* The configuration initialize() is called with is in error.             *)
ConfigError == accessKeyLength < MinAccessKeyLength \/ ~sensitivityInRange

(* C18: an initialize() that runs to its end with the permission granted   *)
(* and the configuration in error returns false and leaves the listener in *)
(* Error.                                                                  *)
C18_ConfigErrorLeavesError ==
  [][( /\ ConfigError
       /\ last'.op = "initialize" /\ last'.ret # "pending"
       /\ permissionGranted' ) =>
       /\ last'.ret = "false"
       /\ currentState' = "error"]_vars

(* C19: no sendSMSWithRetry call ends by throwing: every call that ends     *)
(* returns a result, and a result that is not a success carries an error    *)
(* code.                                                                    *)
C19_NeverThrows ==
  \A i \in SendIds :
    /\ sends[i].pc # "threw"
    /\ (sends[i].pc = "done" /\ ~sends[i].result.success) => sends[i].result.code # ""

(* The step is one of call i of sendSMS on Android: only the call that     *)
(* takes the step changes its own position.                                *)
SendStep(i) == platform = "android" /\ sends'[i].pc # sends[i].pc

(* SendSMS.send is called in the step.                                     *)
CallsSendSMS(i) == SendStep(i) /\ sends'[i].pc = "native"

(* The status sendSMS must give for a report of SendSMS.send.              *)
StatusFor(completed, cancelled, error) ==
  IF completed /\ ~error THEN "sent"
  ELSE IF cancelled THEN "cancelled"
  ELSE "failed"

(* The step of call i is one that SendSMS.send makes by calling back with  *)
(* (completed, cancelled, error), or by throwing: it leaves the result     *)
(* sendSMS gives for that report.                                          *)
NativeResult(i, completed, cancelled, error, threw) ==
  /\ SendStep(i) /\ sends[i].pc = "native"
  /\ threw => ~completed /\ ~cancelled /\ ~error
  /\ sends'[i].lastAttempt = SendSMS_callback(completed, cancelled, error, threw)

(* C20: on Android, for a valid recipient and a non-empty body, a sendSMS  *)
(* whose permission check finds SEND_SMS granted, or whose request is      *)
(* answered granted, calls SendSMS.send; every                             *)
(* call of SendSMS.send is made once per sendSMS, for a valid message, to  *)
(* formatPhoneNumber(message.to) ("5551234567" goes out as                 *)
(* "+15551234567"), and no other step of the call counts as one; and the   *)
(* result of sendSMS has success true exactly                              *)
(* when the callback reports completed without error, with status sent,    *)
(* status cancelled for a cancelled report and failed for any other.       *)
C20_OneSendPerAttempt ==
  [][\A i \in SendIds :
       IF ~SendStep(i) THEN InFlight(sends[i]) => sends'[i].natives = sends[i].natives
       ELSE
         /\ ( /\ sends[i].pc = "check"
              /\ permissionStatus'.hasPermission
              /\ validatePhoneNumber(sends[i].to) /\ ~bodyIsEmpty(sends[i].body) ) =>
              CallsSendSMS(i)
         /\ ( /\ sends[i].pc = "request"
              /\ osSmsPermission # "granted" /\ osSmsPermission' = "granted"
              /\ validatePhoneNumber(sends[i].to) /\ ~bodyIsEmpty(sends[i].body) ) =>
              CallsSendSMS(i)
         /\ CallsSendSMS(i) =>
              /\ sends'[i].natives = sends[i].natives + 1
              /\ sends'[i].natives <= sends'[i].attempts
              /\ validatePhoneNumber(sends[i].to) /\ ~bodyIsEmpty(sends[i].body)
              /\ sends'[i].sentTo = formatPhoneNumber(sends[i].to)
              /\ sends[i].to = <<"5", "5", "5", "1", "2", "3", "4", "5", "6", "7">> =>
                   sends'[i].sentTo =
                     <<"+", "1", "5", "5", "5", "1", "2", "3", "4", "5", "6", "7">>
         /\ (InFlight(sends[i]) /\ ~CallsSendSMS(i)) =>
              sends'[i].natives = sends[i].natives
         /\ sends[i].pc = "native" =>
              \A completed, cancelled, error, threw \in BOOLEAN :
                NativeResult(i, completed, cancelled, error, threw) =>
                  /\ sends'[i].lastAttempt.success = (completed /\ ~error)
                  /\ sends'[i].lastAttempt.deliveryStatus =
                       StatusFor(completed, cancelled, error)]_vars

(* The scenario: "5551234567" was sent once, to "+15551234567", and the    *)
(* call returned sent.                                                     *)
C20_Witness ==
  /\ platform = "android"
  /\ sends[1].pc = "done"
  /\ sends[1].natives = 1 /\ sends[1].attempts = 1
  /\ sends[1].sentTo = <<"+", "1", "5", "5", "5", "1", "2", "3", "4", "5", "6", "7">>
  /\ sends[1].result = Sent

(* C21: a sendSMSWithRetry call waits for a retry only after an attempt   *)
(* that failed with an error marked recoverable, and makes a further       *)
(* attempt only out of that wait: a first attempt that succeeds, or fails  *)
(* with a non-recoverable error, is the only one.  The call returns the    *)
(* result of its last attempt, and retryCount is 0 when it returns.        *)
C21_OneAttemptUnlessRecoverable ==
  [][\A i \in SendIds :
       /\ sends'[i].pc = "delay" =>
            ~sends'[i].lastAttempt.success /\ sends'[i].lastAttempt.isRecoverable
       /\ (InFlight(sends[i]) /\ sends'[i].attempts # sends[i].attempts) =>
            /\ sends[i].pc = "delay"
            /\ sends'[i].attempts = sends[i].attempts + 1
       /\ (sends'[i].pc = "done" /\ sends'[i] # sends[i]) =>
            /\ smsRetryCount' = 0
            /\ sends'[i].result = sends'[i].lastAttempt]_vars

(* A call returned the non-recoverable failure of its only attempt, with   *)
(* the retry counter at 0.                                                 *)
C21_Witness ==
  \E i \in SendIds :
    /\ sends[i].pc = "done"
    /\ sends[i].attempts = 1
    /\ ~sends[i].result.success /\ ~sends[i].result.isRecoverable
    /\ sends[i].result = sends[i].lastAttempt
    /\ smsRetryCount = 0

(***************************************************************************)
(* Properties of the permission gateway                                    *)
(***************************************************************************)

(* A step in which requestPermission(type) is called.                      *)
RequestCalled(type) ==
  permissions'[type].requestCount = permissions[type].requestCount + 1

(* C14: a requestPermission(type) called while the recorded status of the   *)
(* type is never_ask_again does not call PermissionsAndroid.request: it     *)
(* returns never_ask_again in the same step.                                *)
C14_NeverAskAgainNotPrompted ==
  [][\A type \in PermissionTypes :
       (permissions[type].status = "never_ask_again" /\ RequestCalled(type)) =>
         /\ <<"request", type>> \notin gatewayCalls'
         /\ lastGateway' = GatewayStep("requestPermission", type, "never_ask_again")]_vars

(* C15: a recorded status of never_ask_again changes only by a              *)
(* checkPermission that finds the permission granted by the OS, and then    *)
(* to granted.                                                              *)
C15_NeverAskAgainSticky ==
  [][\A type \in PermissionTypes :
       ( /\ permissions[type].status = "never_ask_again"
         /\ permissions'[type].status # "never_ask_again" ) =>
         /\ lastGateway' = GatewayStep("checkPermission", type, "granted")
         /\ osPermissions[type] = "granted"]_vars

(***************************************************************************)
(* Properties of the dispatch orchestrator                                 *)
(***************************************************************************)

(* C16: once handleVoiceEvent has handled a keyword_detected event while a   *)
(* binding is configured, the keyword effect of HomeScreen finds its         *)
(* condition true and calls handleSendMessage for the binding.              *)
C16_DetectionLeadsToSend ==
  [][(detections' = detections + 1 /\ isConfigured /\ isComponentMountedRef) =>
       KeywordEffectSends']_vars

(* C22: when handleAppStateChange has stopped listening because the app    *)
(* left the foreground, and the service reported no error since, the       *)
(* handleAppStateChange of its return to active calls start() on the       *)
(* service.                                                                *)
C22_ResumedOnActive ==
  [][( /\ pausedListening /\ isComponentMountedRef /\ voiceServiceRef
       /\ voiceDetection.error = "null"
       /\ appState # "active" /\ appState' = "active" ) =>
       hookCall' = "start"]_vars

(* C28: with sendSMSWithRetry calls running at once on one service, each  *)
(* call makes at most one first attempt and smsMaxRetries retries for its  *)
(* own message, and gives up on a recoverable failure only when it has     *)
(* made them all.                                                          *)
C28_OwnRetryBudget ==
  \A i \in SendIds :
    /\ sends[i].attempts <= 1 + smsMaxRetries
    /\ ( /\ Returned(sends[i])
         /\ ~sends[i].result.success
         /\ sends[i].result.isRecoverable ) =>
         sends[i].attempts = 1 + smsMaxRetries

(* C29: on the relay platform the month's count never exceeds the quota,   *)
(* so the remaining count freeLimit - messagesThisMonth is never negative. *)
C29_CountWithinQuota ==
  platform = "ios" => messagesThisMonth <= freeLimit

(* C30: the gateway's criticalPermissionsDenied flag is true exactly when  *)
(* the recorded microphone status is denied or never_ask_again.            *)
C30_FlagTracksMicrophone ==
  criticalPermissionsDenied =
    (permissions["microphone"].status \in {"denied", "never_ask_again"})

====
